---- MODULE Spec2Model ----
(***************************************************************************)
(* Model of the subtitle-driven video clippers of audionFormVideo:         *)
(* the segment planners (Timeline-Remap, Smart-Segment, Timeline-Align,    *)
(* Compact, Enhanced/Overlap, Cumulative-Adjust, Reclip), the segment      *)
(* merge, the extract/concat pipeline of process(), the backend's task     *)
(* table with its worker threads, and the batch processor.                 *)
(*                                                                         *)
(* Times are integer milliseconds (pysrt's .ordinal); a score is a         *)
(* rational [n, d] with d > 0, compared by cross-multiplication.           *)
(* A cue is a record [start, end, text]; a text is a sequence of           *)
(* one-character strings.                                                  *)
(***************************************************************************)
EXTENDS Integers, Sequences, FiniteSets, TLC

VARIABLES
    \* ---- the segment merge applied as a function
    m_segments,        \* input list of (start, end)
    gap_threshold,     \* merge gap
    merged,            \* merge_adjacent_segments(m_segments, gap_threshold)
    remerged,          \* the merge applied to its own output
    mpc,               \* "input" | "merged" | "remerged" | "off"
    \* ---- one clipper object and its inputs
    kind,                  \* which clipper class runs
    original_subs,         \* self.original_subs: sequence of cues
    new_subs,              \* self.new_subs: sequence of cues
    video_duration,        \* what get_video_duration() returns (0 when ffprobe fails)
    threshold,             \* self.threshold (milliseconds)
    merge_gap,             \* self.merge_gap / merge_gap argument (milliseconds)
    \* ---- the planning loop
    pc,                    \* "plan" | "planned" | "raised" | later phases of process()
    i,                     \* number of new cues the loop has handled
    segments,              \* the planner's segment list
    used_original_indices, \* 0-based indices of original cues already taken
    last_original_index,   \* Timeline-Align's anchor
    cumulative_offset,     \* Compact / Cumulative-Adjust running offset (ms)
    processing_log,        \* per-cue log entries
    adjusted_original,     \* Cumulative-Adjust's adjusted cue list
    accepted,              \* history: <<new cue number, original index>> of every accepted match
    stats,                 \* the statistics record the planner returns
    first_plan,            \* what an earlier call of the planner on this object returned
    \* ---- the rest of process(): extraction, concatenation, result
    to_extract,            \* the segment list the extraction loop walks over
    seg_idx,               \* number of segments the extraction loop has handled
    segment_files,         \* numbers of the segments whose file was kept
    ffmpeg_calls,          \* history: the ffmpeg commands issued so far
    last_outcome,          \* how the latest ffmpeg call ended
    log_exported,          \* the processing log has been written to output_dir
    temp_dir,              \* self.temp_dir exists
    proc,                  \* "running" | "returned" | "raised"
    cancelled_at,          \* -1, or the number of ffmpeg calls made when the task was cancelled
    results,               \* what process() returns
    \* ---- the backend: the task table and its worker threads
    tasks,                 \* the `tasks` dict: task id -> task record
    issued,                \* the task ids uuid4 has handed out so far
    clock,                 \* datetime.now(), in whole seconds
    starting,              \* task ids of process requests that have left the lock
                           \* and are about to start their thread
    workers,               \* the worker threads started so far
    written,               \* history: <<artifact path, task id>> of every artifact written
    \* ---- one BatchVideoProcessor and the batch task that drives it
    batch_mode,            \* "process_batch" | "process_single" (the batch API) | "off"
    batch_videos,          \* number of videos handed in
    batch_pos,             \* number of videos processed so far
    self_results,          \* self.results of the processor
    local_results,         \* the local list `results` of process_batch
    task_completed,        \* tasks[batch_id]['completed']
    task_failed,           \* tasks[batch_id]['failed']
    bpc,                   \* "loop" | "looped" | "reported" | "off"
    report                 \* what generate_report returned

mergeVars == <<m_segments, gap_threshold, merged, remerged, mpc>>
inputVars == <<kind, original_subs, new_subs, video_duration, threshold, merge_gap>>
planVars == <<pc, i, segments, used_original_indices, last_original_index,
              cumulative_offset, processing_log, adjusted_original, accepted, stats>>

runVars == <<to_extract, seg_idx, segment_files, ffmpeg_calls, last_outcome,
             log_exported, temp_dir, proc, cancelled_at, results>>

replayVars == <<first_plan>>
serverVars == <<tasks, issued, clock, starting, workers, written>>
batchVars == <<batch_mode, batch_videos, batch_pos, self_results, local_results,
               task_completed, task_failed, bpc, report>>

vars == <<mergeVars, inputVars, planVars, replayVars, runVars, serverVars, batchVars>>

\* ------------------------------------------------------------------ bounds

MaxSegs == 3
MaxTick == 4
MaxGapTicks == 2

\* ------------------------------------------------------------------ helpers

Max(a, b) == IF a >= b THEN a ELSE b
Min(a, b) == IF a <= b THEN a ELSE b
Abs(a) == IF a >= 0 THEN a ELSE 0 - a

SeqsUpTo(S, n) == UNION {[1..k -> S] : k \in 0..n}

\* ------------------------------------------------------------------ inputs

\* the cue texts the tracks are built from
T_ab == <<"a", "b">>
T_AB == <<"A", "B", " ">>
T_a_b == <<"a", " ", "b">>
T_xy == <<"x", "y">>
T_b == <<"b">>

Cue(s, e, t) == [start |-> s, end |-> e, text |-> t]

\* the cues the tracks are built from
CuePool ==
    { Cue(10000, 12000, T_ab),
      Cue(10500, 12300, T_AB),
      Cue(20000, 22000, T_a_b),
      Cue(18000, 19800, T_xy),
      Cue(0, 3000, T_b),
      Cue(40000, 41500, T_ab) }

PoolTexts == {c.text : c \in CuePool}

\* the cues of S as a track: in file order, which is ascending start time
TrackOf(S) ==
    CHOOSE f \in [1..Cardinality(S) -> S] :
        \A x \in 1..Cardinality(S) : \A y \in 1..Cardinality(S) :
            x < y => f[x].start < f[y].start

\* the tracks of at most n cues of a pool
TracksOf(pool, n) == {TrackOf(S) : S \in {X \in SUBSET pool : Cardinality(X) <= n}}
TracksUpTo(n) == TracksOf(CuePool, n)

\* ------------------------------------------------------------------ scores

RECURSIVE GCD(_, _)
GCD(a, b) == IF b = 0 THEN a ELSE GCD(b, a % b)

\* a score as an exact fraction n/d, n >= 0, d > 0, in lowest terms
Rat(n, d) == LET g == GCD(n, d) IN [n |-> n \div g, d |-> d \div g]
RatGt(x, y) == x.n * y.d > y.n * x.d
RatLt(x, y) == x.n * y.d < y.n * x.d
RatAdd(x, y) == Rat(x.n * y.d + y.n * x.d, x.d * y.d)
RatMul(x, y) == Rat(x.n * y.n, x.d * y.d)
RatZero == Rat(0, 1)

\* ------------------------------------------------------------------ texts

\* str.lower() on the characters the inputs use
LowerChar(c) == IF c = "A" THEN "a" ELSE IF c = "B" THEN "b" ELSE c
lower(text) == [k \in 1..Len(text) |-> LowerChar(text[k])]

\* str.strip(): leading and trailing blanks removed
strip(text) ==
    LET inked == {k \in 1..Len(text) : text[k] # " "}
    IN IF inked = {} THEN <<>>
       ELSE LET lo == CHOOSE k \in inked : \A j \in inked : k <= j
                hi == CHOOSE k \in inked : \A j \in inked : k >= j
            IN SubSeq(text, lo, hi)

\* difflib.SequenceMatcher.find_longest_match on a[alo:ahi], b[blo:bhi]
\* (0-based, half-open): the longest common block, of those the one that
\* starts earliest in a, of those the one that starts earliest in b.
find_longest_match(a, alo, ahi, b, blo, bhi) ==
    LET blocks == {m \in (alo..(ahi - 1)) \X (blo..(bhi - 1)) \X (1..(ahi - alo)) :
                      /\ m[1] + m[3] <= ahi
                      /\ m[2] + m[3] <= bhi
                      /\ \A t \in 0..(m[3] - 1) : a[m[1] + t + 1] = b[m[2] + t + 1]}
        better(x, y) ==
            \/ x[3] > y[3]
            \/ x[3] = y[3] /\ x[1] < y[1]
            \/ x[3] = y[3] /\ x[1] = y[1] /\ x[2] <= y[2]
    IN IF blocks = {} THEN <<alo, blo, 0>>
       ELSE CHOOSE x \in blocks : \A y \in blocks : better(x, y)

\* the total size of SequenceMatcher.get_matching_blocks(): the longest
\* block, then recursively the pieces to its left and to its right
RECURSIVE matching_size(_, _, _, _, _, _)
matching_size(a, alo, ahi, b, blo, bhi) ==
    IF alo >= ahi \/ blo >= bhi THEN 0
    ELSE LET m == find_longest_match(a, alo, ahi, b, blo, bhi)
         IN IF m[3] = 0 THEN 0
            ELSE m[3] + matching_size(a, alo, m[1], b, blo, m[2])
                      + matching_size(a, m[1] + m[3], ahi, b, m[2] + m[3], bhi)

\* SequenceMatcher(None, t1, t2).ratio() = 2*M / (len1 + len2) of the
\* lower-cased, stripped texts; 0 when either is empty
sequence_ratio(text1, text2) ==
    LET t1 == strip(lower(text1))
        t2 == strip(lower(text2))
    IN IF t1 = <<>> \/ t2 = <<>> THEN RatZero
       ELSE Rat(2 * matching_size(t1, 0, Len(t1), t2, 0, Len(t2)), Len(t1) + Len(t2))

\* the ratios of the input texts, computed once
RatioOfTexts == [p \in PoolTexts \X PoolTexts |-> sequence_ratio(p[1], p[2])] @@ <<>>

\* text_similarity(text1, text2)
text_similarity(text1, text2) ==
    IF <<text1, text2>> \in DOMAIN RatioOfTexts THEN RatioOfTexts[<<text1, text2>>]
    ELSE sequence_ratio(text1, text2)

\* str.split(): the set of blank-separated words of a text
words(text) ==
    LET n == Len(text)
        starts == {k \in 1..n : text[k] # " " /\ (k = 1 \/ text[k - 1] = " ")}
        stop(k) == CHOOSE e \in k..n :
                      /\ \A j \in k..e : text[j] # " "
                      /\ (e = n \/ text[e + 1] = " ")
    IN {SubSeq(text, k, stop(k)) : k \in starts}

\* ------------------------------------------------------------------ merge

\* `current_start, current_end = start, end` when a gap closes the open segment
merge_open_mut(current_start, current_end, start, end) == <<current_start, end>>
merge_open(current_start, current_end, start, end) == <<start, end>>

\* `current_end = end` when the next segment is within the gap threshold
merge_extend(current_start, current_end, start, end) == <<current_start, end>>

\* `if start - current_end <= gap_threshold`
within_gap_mut(start, current_end, gap) == start - current_end < gap
within_gap(start, current_end, gap) == start - current_end <= gap

RECURSIVE merge_walk(_, _, _, _, _)
merge_walk(segs, k, current, out, gap) ==
    IF k > Len(segs) THEN Append(out, current)
    ELSE LET start == segs[k][1]
             end == segs[k][2]
         IN IF within_gap(start, current[2], gap)
            THEN merge_walk(segs, k + 1,
                            merge_extend(current[1], current[2], start, end), out, gap)
            ELSE merge_walk(segs, k + 1,
                            merge_open(current[1], current[2], start, end),
                            Append(out, current), gap)

merge_adjacent_segments(segs, gap) ==
    IF segs = <<>> THEN <<>>
    ELSE merge_walk(segs, 2, segs[1], <<>>, gap)

\* ------------------------------------------------------------------ a fresh run

\* `results = {}`: no success flag, no artifact path, no error, no stats
EmptyResults ==
    [success |-> FALSE, artifact |-> "", with_subtitle |-> FALSE, error |-> "", stats |-> FALSE]

\* no ffmpeg call has been made yet
NoCall == [how |-> "none", returncode |-> 0, size |-> 0]

\* the object after __init__: temp_dir made, nothing extracted
RunStart ==
    /\ to_extract = <<>>
    /\ seg_idx = 0
    /\ segment_files = <<>>
    /\ ffmpeg_calls = <<>>
    /\ last_outcome = NoCall
    /\ log_exported = FALSE
    /\ temp_dir = TRUE
    /\ proc = "running"
    /\ cancelled_at = -1
    /\ results = EmptyResults

\* the backend has no task and no thread
ServerIdle ==
    /\ tasks = <<>>
    /\ issued = {}
    /\ clock = 0
    /\ starting = <<>>
    /\ workers = <<>>
    /\ written = {}

\* no batch is being processed
NoReport == [state |-> "none", total |-> 0, successful |-> 0, failed |-> 0]

BatchIdle ==
    /\ batch_mode = "off"
    /\ batch_videos = 0
    /\ batch_pos = 0
    /\ self_results = <<>>
    /\ local_results = <<>>
    /\ task_completed = 0
    /\ task_failed = 0
    /\ bpc = "off"
    /\ report = NoReport

\* ------------------------------------------------------------------ merge as a function

\* the merge inputs lie on a grid of half seconds
TimeGrid == {k * 500 : k \in 0..MaxTick}
SegPool == {s \in TimeGrid \X TimeGrid : s[1] < s[2]}
GapPool == {k * 500 : k \in 0..MaxGapTicks}

\* the clipper object is not in use while the merge is applied as a function
ClipperIdle ==
    /\ kind = "none"
    /\ original_subs = <<>>
    /\ new_subs = <<>>
    /\ video_duration = 0
    /\ threshold = 0
    /\ merge_gap = 0
    /\ pc = "off"
    /\ i = 0
    /\ segments = <<>>
    /\ used_original_indices = {}
    /\ last_original_index = 0
    /\ cumulative_offset = 0
    /\ processing_log = <<>>
    /\ adjusted_original = <<>>
    /\ accepted = <<>>
    /\ stats = [state |-> "none"]
    /\ first_plan = [state |-> "none"]
    /\ RunStart

MergeIdle ==
    /\ m_segments = <<>>
    /\ gap_threshold = 0
    /\ merged = <<>>
    /\ remerged = <<>>
    /\ mpc = "off"

\* three segments off the grid: a gap of 0.3 s, then one of 12 s
MergeExample == <<<<0, 5000>>, <<5300, 8000>>, <<20000, 22000>>>>

InitMerge ==
    /\ BatchIdle
    /\ m_segments \in SeqsUpTo(SegPool, MaxSegs) \cup {MergeExample}
    /\ gap_threshold \in GapPool
    /\ merged = <<>>
    /\ remerged = <<>>
    /\ mpc = "input"
    /\ ClipperIdle
    /\ ServerIdle

Merge ==
    /\ mpc = "input"
    /\ merged' = merge_adjacent_segments(m_segments, gap_threshold)
    /\ mpc' = "merged"
    /\ UNCHANGED <<m_segments, gap_threshold, remerged, inputVars, planVars, replayVars, serverVars, batchVars, runVars>>

MergeAgain ==
    /\ mpc = "merged"
    /\ remerged' = merge_adjacent_segments(merged, gap_threshold)
    /\ mpc' = "remerged"
    /\ UNCHANGED <<m_segments, gap_threshold, merged, inputVars, planVars, replayVars, serverVars, batchVars, runVars>>

NextMerge == Merge \/ MergeAgain

SpecMerge == InitMerge /\ [][NextMerge]_vars

\* ------------------------------------------------------------------ planners: shared

\* the loop `if score > best_score: best_index = idx` over cands in ascending
\* order with best_score starting at 0, sc[c] the score of candidate c: the
\* first index of maximal score, -1 when no score is above 0
first_best(cands, sc) ==
    LET pos == {c \in cands : RatGt(sc[c], RatZero)}
    IN IF pos = {} THEN -1
       ELSE CHOOSE c \in pos : \A d \in pos :
                \/ RatGt(sc[c], sc[d])
                \/ (~RatGt(sc[d], sc[c]) /\ c <= d)

\* the hard-coded acceptance thresholds `> 0.3` and `> 0.4`
TextAccept == Rat(3, 10)
BlendAccept == Rat(4, 10)

orig(idx) == original_subs[idx + 1]
duration_of(sub) == sub.end - sub.start

LogMatched(n, idx) == [index |-> n, status |-> "matched", matched_original |-> idx + 1]
LogStatus(n, st) == [index |-> n, status |-> st, matched_original |-> 0]

\* ------------------------------------------------------------------ Timeline-Remap

\* `for idx, orig_sub in enumerate(self.original_subs)`: every original cue is
\* a candidate for the new cue at position pos, whatever pos is
remap_candidates_mut(n_orig, pos) == pos..(n_orig - 1)
remap_candidates(n_orig, pos) == 0..(n_orig - 1)

\* one pass of the loop of extract_segments_by_new_timeline
RemapStep ==
    /\ pc = "plan" /\ kind = "remap" /\ i < Len(new_subs)
    /\ LET new_sub == new_subs[i + 1]
           score(idx) == text_similarity(new_sub.text, orig(idx).text)
           cands == remap_candidates(Len(original_subs), i)
           best_index == first_best(cands, [c \in cands |-> score(c)])
       IN IF best_index >= 0 /\ RatGt(score(best_index), TextAccept)
          THEN LET orig_start == orig(best_index).start
                   duration == new_sub.end - new_sub.start
                   segment_end == Min(video_duration, orig_start + duration)
               IN IF segment_end > orig_start
                  THEN /\ segments' = Append(segments, <<new_sub.start, new_sub.end, orig_start>>)
                       /\ processing_log' = Append(processing_log, LogMatched(i + 1, best_index))
                       /\ accepted' = Append(accepted, <<i + 1, best_index>>)
                  ELSE /\ processing_log' = Append(processing_log, LogStatus(i + 1, "invalid_duration"))
                       /\ UNCHANGED <<segments, accepted>>
          ELSE /\ processing_log' = Append(processing_log, LogStatus(i + 1, "not_found"))
               /\ UNCHANGED <<segments, accepted>>
    /\ i' = i + 1
    /\ UNCHANGED <<pc, used_original_indices, last_original_index, cumulative_offset,
                   adjusted_original, stats, inputVars, replayVars, serverVars, batchVars, mergeVars, runVars>>

\* ------------------------------------------------------------------ Smart-Segment (gap preserving)

SmartWindow == 20

\* `used_original_indices.add(best_index)` stands under `if clip_end >
\* clip_start`: a match whose clamped interval is empty is not consumed
used_after_mut(used, idx, emitted) == used \cup {idx}
used_after(used, idx, emitted) == IF emitted THEN used \cup {idx} ELSE used

SetMax(S) == CHOOSE x \in S : \A y \in S : x >= y

\* one pass of the loop of extract_segments_with_gaps
SmartStep ==
    /\ pc = "plan" /\ kind = "smart" /\ i < Len(new_subs)
    /\ LET new_sub == new_subs[i + 1]
           last_used == IF used_original_indices # {} THEN SetMax(used_original_indices) ELSE 0
           search_start == Max(0, last_used - SmartWindow)
           search_end == Min(Len(original_subs), last_used + SmartWindow + 1)
           cands == (search_start..(search_end - 1)) \ used_original_indices
           score(idx) == text_similarity(new_sub.text, orig(idx).text)
           best_index == first_best(cands, [c \in cands |-> score(c)])
       IN IF best_index >= 0 /\ RatGt(score(best_index), TextAccept)
          THEN LET clip_start == Max(0, orig(best_index).start)
                   clip_end == Min(video_duration, orig(best_index).end)
               IN /\ used_original_indices' =
                        used_after(used_original_indices, best_index, clip_end > clip_start)
                  /\ IF clip_end > clip_start
                     THEN /\ segments' = Append(segments, <<clip_start, clip_end>>)
                          /\ processing_log' = Append(processing_log, LogMatched(i + 1, best_index))
                          /\ accepted' = Append(accepted, <<i + 1, best_index>>)
                     ELSE UNCHANGED <<segments, processing_log, accepted>>
          ELSE /\ processing_log' = Append(processing_log, LogStatus(i + 1, "not_found"))
               /\ UNCHANGED <<segments, used_original_indices, accepted>>
    /\ i' = i + 1
    /\ UNCHANGED <<pc, last_original_index, cumulative_offset,
                   adjusted_original, stats, inputVars, replayVars, serverVars, batchVars, mergeVars, runVars>>

\* ------------------------------------------------------------------ Timeline-Align

AlignWindow == 10

\* duration_sim = max(0, 1 - |new - orig| / max(new, orig))
duration_sim(new_duration, orig_duration) ==
    LET longest == Max(new_duration, orig_duration)
        diff == Abs(new_duration - orig_duration)
    IN IF longest - diff < 0 THEN RatZero ELSE Rat(longest - diff, longest)

\* total_score = text_sim * 0.7 + duration_sim * 0.3, for candidates whose
\* text_sim is not below 0.3 (the others are skipped: score 0 here)
align_score(new_sub, idx) ==
    LET text_sim == text_similarity(new_sub.text, orig(idx).text)
    IN IF RatLt(text_sim, TextAccept) THEN RatZero
       ELSE RatAdd(RatMul(text_sim, Rat(7, 10)),
                   RatMul(duration_sim(duration_of(new_sub), duration_of(orig(idx))), Rat(3, 10)))

\* find_matching_segment: the index of the match, or -1 for None
find_matching_segment(new_sub, used, last_index) ==
    LET search_start == Max(0, last_index - AlignWindow)
        search_end == Min(Len(original_subs), last_index + AlignWindow + 1)
        cands == (search_start..(search_end - 1)) \ used
        score(idx) == align_score(new_sub, idx)
        best_index == first_best(cands, [c \in cands |-> score(c)])
    IN IF best_index >= 0 /\ RatGt(score(best_index), BlendAccept) THEN best_index ELSE -1

\* one pass of the loop of extract_aligned_segments
AlignStep ==
    /\ pc = "plan" /\ kind = "align" /\ i < Len(new_subs)
    /\ LET new_sub == new_subs[i + 1]
           orig_idx == find_matching_segment(new_sub, used_original_indices, last_original_index)
       IN IF orig_idx >= 0
          THEN LET clip_start == Max(0, orig(orig_idx).start)
                   clip_end == Min(video_duration, orig(orig_idx).end)
               IN IF clip_end > clip_start
                  THEN /\ segments' = Append(segments, <<clip_start, clip_end>>)
                       /\ used_original_indices' = used_original_indices \cup {orig_idx}
                       /\ last_original_index' = orig_idx
                       /\ processing_log' = Append(processing_log, LogMatched(i + 1, orig_idx))
                       /\ accepted' = Append(accepted, <<i + 1, orig_idx>>)
                  ELSE UNCHANGED <<segments, used_original_indices, last_original_index,
                                   processing_log, accepted>>
          ELSE /\ processing_log' = Append(processing_log, LogStatus(i + 1, "not_found"))
               /\ UNCHANGED <<segments, used_original_indices, last_original_index, accepted>>
    /\ i' = i + 1
    /\ UNCHANGED <<pc, cumulative_offset, adjusted_original, stats, inputVars, replayVars, serverVars, batchVars, mergeVars, runVars>>

\* ------------------------------------------------------------------ Compact

\* candidates further than 10 s from the offset-corrected start are skipped
CompactReachMs == 10000

\* len(new_words & orig_words) / max(len(new_words), 1), 0 without a common word
word_similarity(new_text, orig_text) ==
    LET new_words == words(strip(lower(new_text)))
        orig_words == words(strip(lower(orig_text)))
    IN IF new_words \cap orig_words = {} THEN RatZero
       ELSE Rat(Cardinality(new_words \cap orig_words), Max(Cardinality(new_words), 1))

\* total_score = time_score * 0.7 + text_similarity * 0.3
compact_score(new_sub, offset, idx) ==
    LET target_start == new_sub.start + offset
        time_diff == Abs(orig(idx).start - target_start)
    IN IF time_diff > CompactReachMs THEN RatZero
       ELSE RatAdd(RatMul(Rat(CompactReachMs - time_diff, CompactReachMs), Rat(7, 10)),
                   RatMul(word_similarity(new_sub.text, orig(idx).text), Rat(3, 10)))

\* find_matching_original_subtitle: the index of the match, or -1 for None
find_matching_original_subtitle(new_sub, offset, used) ==
    LET cands == (0..(Len(original_subs) - 1)) \ used
        score(idx) == compact_score(new_sub, offset, idx)
        best_index == first_best(cands, [c \in cands |-> score(c)])
    IN IF best_index >= 0 /\ RatGt(score(best_index), TextAccept) THEN best_index ELSE -1

\* one pass of the loop of calculate_compact_segments
CompactStep ==
    /\ pc = "plan" /\ kind = "compact" /\ i < Len(new_subs)
    /\ LET new_sub == new_subs[i + 1]
           orig_idx == find_matching_original_subtitle(new_sub, cumulative_offset,
                                                       used_original_indices)
       IN IF orig_idx >= 0
          THEN LET duration_diff == duration_of(new_sub) - duration_of(orig(orig_idx))
                   clip_start == Max(0, orig(orig_idx).start)
                   clip_end == Min(video_duration, orig(orig_idx).end)
               IN /\ used_original_indices' =
                        used_after(used_original_indices, orig_idx, clip_end > clip_start)
                  /\ IF clip_end > clip_start
                     THEN /\ segments' = Append(segments, <<clip_start, clip_end>>)
                          /\ cumulative_offset' = cumulative_offset - duration_diff
                          /\ processing_log' = Append(processing_log, LogMatched(i + 1, orig_idx))
                          /\ accepted' = Append(accepted, <<i + 1, orig_idx>>)
                     ELSE UNCHANGED <<segments, cumulative_offset, processing_log, accepted>>
          ELSE /\ processing_log' = Append(processing_log, LogStatus(i + 1, "not_found"))
               /\ UNCHANGED <<segments, used_original_indices, cumulative_offset, accepted>>
    /\ i' = i + 1
    /\ UNCHANGED <<pc, last_original_index, adjusted_original, stats, inputVars, replayVars, serverVars, batchVars, mergeVars, runVars>>

\* ------------------------------------------------------------------ Enhanced (overlap and merge)

\* an overlap must be longer than 0.3 s
MinOverlapMs == 300

overlap_of(new_sub, idx) ==
    <<Max(new_sub.start, orig(idx).start), Min(new_sub.end, orig(idx).end)>>

\* the unused original cue of longest overlap above 0.3 s, first one on a tie
best_overlap_index(new_sub, used) ==
    LET len(idx) == overlap_of(new_sub, idx)[2] - overlap_of(new_sub, idx)[1]
        cands == {idx \in (0..(Len(original_subs) - 1)) \ used : len(idx) > MinOverlapMs}
    IN IF cands = {} THEN -1
       ELSE CHOOSE c \in cands : \A d \in cands : len(c) > len(d) \/ (len(c) = len(d) /\ c <= d)

\* one pass of the matching loop of analyze_and_extract_segments
EnhancedStep ==
    /\ pc = "plan" /\ kind = "enhanced" /\ i < Len(new_subs)
    /\ LET new_sub == new_subs[i + 1]
           best_orig_idx == best_overlap_index(new_sub, used_original_indices)
       IN IF best_orig_idx >= 0
          THEN LET best_overlap == overlap_of(new_sub, best_orig_idx)
                   clip_start == Max(0, best_overlap[1])
                   clip_end0 == Min(video_duration, best_overlap[2])
                   new_duration == duration_of(new_sub)
                   clip_end == IF new_duration > clip_end0 - clip_start
                               THEN Min(video_duration,
                                        clip_end0 + (new_duration - (clip_end0 - clip_start)))
                               ELSE clip_end0
               IN /\ used_original_indices' = used_original_indices \cup {best_orig_idx}
                  /\ accepted' = Append(accepted, <<i + 1, best_orig_idx>>)
                  /\ segments' = IF clip_end > clip_start
                                 THEN Append(segments, <<clip_start, clip_end>>)
                                 ELSE segments
          ELSE UNCHANGED <<segments, used_original_indices, accepted>>
    /\ i' = i + 1
    /\ UNCHANGED <<pc, last_original_index, cumulative_offset, processing_log,
                   adjusted_original, stats, inputVars, replayVars, serverVars, batchVars, mergeVars, runVars>>

\* list.sort(key=lambda x: x[0]): stable, ascending by start
RECURSIVE sort_by_start(_)
sort_by_start(segs) ==
    IF Len(segs) <= 1 THEN segs
    ELSE LET rest == sort_by_start(SubSeq(segs, 1, Len(segs) - 1))
             x == segs[Len(segs)]
             before == {k \in 1..Len(rest) : rest[k][1] <= x[1]}
             cut == IF before = {} THEN 0 ELSE SetMax(before)
         IN SubSeq(rest, 1, cut) \o <<x>> \o SubSeq(rest, cut + 1, Len(rest))

\* ------------------------------------------------------------------ Cumulative-Adjust

\* `abs(time_diff) < self.threshold`: the cue is left as it is
within_threshold(time_diff, limit) == Abs(time_diff) < limit

\* `time_diff = orig_start - new_start`: the offset accumulated so far is not
\* part of it
time_diff_of_mut(orig_start, new_start, offset) == (orig_start - offset) - new_start
time_diff_of(orig_start, new_start, offset) == orig_start - new_start

\* one pass of the first loop of calculate_adjusted_segments
CumulativeStep ==
    /\ pc = "plan" /\ kind = "cumulative" /\ i < Min(Len(original_subs), Len(new_subs))
    /\ LET orig_sub == original_subs[i + 1]
           new_sub == new_subs[i + 1]
           time_diff == time_diff_of(orig_sub.start, new_sub.start, cumulative_offset)
       IN IF within_threshold(time_diff, threshold)
          THEN /\ adjusted_original' = Append(adjusted_original,
                      [index |-> i, start |-> orig_sub.start, end |-> orig_sub.end,
                       adjustment |-> 0, cumulative_offset |-> cumulative_offset])
               /\ UNCHANGED <<processing_log, cumulative_offset>>
          ELSE /\ processing_log' = Append(processing_log,
                      LogStatus(i + 1, IF time_diff > 0 THEN "cut" ELSE "add"))
               /\ adjusted_original' = Append(adjusted_original,
                      [index |-> i, start |-> orig_sub.start - time_diff,
                       end |-> orig_sub.end - time_diff,
                       adjustment |-> time_diff, cumulative_offset |-> cumulative_offset])
               /\ cumulative_offset' = cumulative_offset + time_diff
    /\ i' = i + 1
    /\ UNCHANGED <<pc, segments, used_original_indices, last_original_index, accepted,
                   stats, inputVars, replayVars, serverVars, batchVars, mergeVars, runVars>>

\* the second loop: the adjusted cues clamped to the video, empty ones left out
RECURSIVE clamp_segments(_, _)
clamp_segments(items, duration) ==
    IF items = <<>> THEN <<>>
    ELSE LET start == Max(0, items[1].start)
             end == Min(duration, items[1].end)
             rest == clamp_segments(Tail(items), duration)
         IN IF end > start THEN <<<<start, end>>>> \o rest ELSE rest

\* ------------------------------------------------------------------ Reclip

\* one pass of the loop of VideoReclipper.extract_segments
ReclipStep ==
    /\ pc = "plan" /\ kind = "reclip" /\ i < Len(new_subs)
    /\ LET sub == new_subs[i + 1]
           start_time == Max(0, sub.start)
           end_time == Min(video_duration, sub.end)
       IN segments' = IF end_time > start_time
                      THEN Append(segments, <<start_time, end_time>>)
                      ELSE segments
    /\ i' = i + 1
    /\ UNCHANGED <<pc, used_original_indices, last_original_index, cumulative_offset,
                   processing_log, adjusted_original, accepted, stats, inputVars, replayVars, serverVars, batchVars, mergeVars, runVars>>

\* ------------------------------------------------------------------ VideoRecomposer

\* an overlap counts from 0.5 s on; a clip is cut to 30 s at most
RecomposerOverlapMs == 500
ClipCapMs == 30000

\* the body of the inner loop of _clip_video_by_subtitle_times: the clip one
\* original cue gives for one new cue, as a list of zero or one segment
clip_of_overlap(new_sub, orig_sub) ==
    LET overlap_start == Max(new_sub.start, orig_sub.start)
        overlap_end == Min(new_sub.end, orig_sub.end)
    IN IF overlap_end - overlap_start >= RecomposerOverlapMs
       THEN LET clip_start == Max(0, overlap_start)
                clip_end0 == Min(video_duration, overlap_end)
                clip_end == IF clip_end0 - clip_start > ClipCapMs
                            THEN clip_start + ClipCapMs ELSE clip_end0
            IN IF clip_end > clip_start THEN <<<<clip_start, clip_end>>>> ELSE <<>>
       ELSE <<>>

\* the inner loop `for orig_sub in original_subs` from cue k on
RECURSIVE overlap_clips(_, _)
overlap_clips(new_sub, k) ==
    IF k > Len(original_subs) THEN <<>>
    ELSE clip_of_overlap(new_sub, original_subs[k]) \o overlap_clips(new_sub, k + 1)

\* one pass of the outer loop `for new_sub in new_subs`
RecomposerStep ==
    /\ pc = "plan" /\ kind = "recomposer" /\ i < Len(new_subs)
    /\ segments' = segments \o overlap_clips(new_subs[i + 1], 1)
    /\ i' = i + 1
    /\ UNCHANGED <<pc, used_original_indices, last_original_index, cumulative_offset,
                   processing_log, adjusted_original, accepted, stats, inputVars, replayVars, serverVars, batchVars, mergeVars, runVars>>

\* ------------------------------------------------------------------ the extract command

\* the head start Smart-Segment and Cumulative-Adjust give a segment
SmartBufferMs == 100
CumulativeBufferMs == 50

\* the `-ss` argument of the ffmpeg extract command for one planned segment
extract_seek(seg) ==
    IF kind = "remap" THEN seg[3]
    ELSE IF kind = "smart" THEN Max(0, seg[1] - SmartBufferMs)
    ELSE IF kind = "cumulative" THEN Max(0, seg[1] - CumulativeBufferMs)
    ELSE seg[1]

\* the `-t` argument: the duration computed before any buffer is applied
extract_length(seg) == seg[2] - seg[1]

\* ------------------------------------------------------------------ end of planning

\* number of passes the planning loop of this clipper makes
loop_length ==
    IF kind = "cumulative" THEN Min(Len(original_subs), Len(new_subs))
    ELSE Len(new_subs)

\* the statistics block after the loop; `match_rate` divides by len(new_subs)
\* and Compact's last print divides by the original track's end time
plan_raises ==
    \/ kind \in {"remap", "smart", "align"} /\ Len(new_subs) = 0
    \/ /\ kind = "compact"
       /\ (original_subs = <<>> \/ original_subs[Len(original_subs)].end = 0)

\* what the planner returns as its segment list once the loop is over
final_segments ==
    IF kind = "enhanced" THEN merge_adjacent_segments(sort_by_start(segments), merge_gap)
    ELSE IF kind = "cumulative" THEN clamp_segments(adjusted_original, video_duration)
    ELSE segments

plan_stats(segs) ==
    [state |-> "made",
     total_new_subtitles |-> loop_length,
     matched_segments |-> Len(segs),
     segments_count |-> Len(segs),
     final_cumulative_offset |-> cumulative_offset,
     total_adjustment_time |-> cumulative_offset,
     log |-> processing_log]

PlanFinish ==
    /\ pc = "plan" /\ i = loop_length
    /\ IF plan_raises
       THEN /\ pc' = "raised"
            /\ UNCHANGED <<stats, segments>>
       ELSE /\ pc' = "planned"
            /\ segments' = final_segments
            /\ stats' = IF kind = "recomposer" THEN stats ELSE plan_stats(final_segments)
    /\ UNCHANGED <<i, used_original_indices, last_original_index, cumulative_offset,
                   processing_log, adjusted_original, accepted, inputVars, replayVars, serverVars, batchVars, mergeVars, runVars>>

\* ------------------------------------------------------------------ planning as a function

MaxOrig == 2
MaxNew == 2

DurationPool == {0, 12000, 30000, 60000}

DefaultThresholdMs == 500

DefaultMergeGapMs == 2000
ReclipMergeGapMs == 500

OrigTracks == TracksUpTo(MaxOrig)
NewTracks == TracksUpTo(MaxNew)

PlanKinds == {"remap", "smart", "align", "compact", "enhanced", "cumulative", "reclip"}

PlanStart ==
    /\ pc = "plan"
    /\ i = 0
    /\ segments = <<>>
    /\ used_original_indices = {}
    /\ last_original_index = 0
    /\ cumulative_offset = 0
    /\ processing_log = <<>>
    /\ adjusted_original = <<>>
    /\ accepted = <<>>
    /\ stats = [state |-> "none"]
    /\ first_plan = [state |-> "none"]
    /\ RunStart

\* the `threshold` a caller hands to TimelineRemapClipper is a similarity, kept
\* here in thousandths: 0.3 from the backend, 0.5 by default, 0.9 for a strict run
RemapThresholds == {300, 500, 900}

InitPlan ==
    /\ BatchIdle
    /\ kind \in PlanKinds
    /\ original_subs \in OrigTracks
    /\ new_subs \in NewTracks
    /\ video_duration \in DurationPool
    /\ threshold \in IF kind = "remap" THEN RemapThresholds ELSE {DefaultThresholdMs}
    /\ merge_gap = IF kind = "reclip" THEN ReclipMergeGapMs ELSE DefaultMergeGapMs
    /\ PlanStart
    /\ MergeIdle
    /\ ServerIdle

\* the locals the planner sets up on entry: `used_original_indices = set()`;
\* nothing of an earlier call (prev) is carried over
fresh_used_mut(prev) == prev
fresh_used(prev) == {}

\* the planner method is called a second time on the same object, with the
\* same tracks, video duration and configuration
PlanAgain ==
    /\ pc = "planned" /\ first_plan.state = "none"
    /\ first_plan' = [state |-> "made", segments |-> segments, stats |-> stats,
                      log |-> processing_log]
    /\ pc' = "plan"
    /\ i' = 0
    /\ segments' = <<>>
    /\ used_original_indices' = fresh_used(used_original_indices)
    /\ last_original_index' = 0
    /\ cumulative_offset' = 0
    /\ processing_log' = <<>>
    /\ adjusted_original' = <<>>
    /\ accepted' = <<>>
    /\ stats' = [state |-> "none"]
    /\ UNCHANGED <<inputVars, mergeVars, runVars, serverVars, batchVars>>

NextPlan ==
    \/ RemapStep
    \/ SmartStep
    \/ AlignStep
    \/ CompactStep
    \/ EnhancedStep
    \/ CumulativeStep
    \/ ReclipStep
    \/ PlanFinish
    \/ PlanAgain

SpecPlan == InitPlan /\ [][NextPlan]_vars

\* ------------------------------------------------------------------ planning on a long track

\* an original track one cue longer than the first search window: cue k
\* (counted from 0) runs from k s to k.8 s and says nothing a new cue says,
\* except at the marked positions, the two ends of the first window
MaxLongNew == 3

LongLen == SmartWindow + 2
MarkedPositions == {0, 1, SmartWindow, SmartWindow + 1}
LongTexts == {T_ab, T_b, T_a_b}

LongCue(k, t) == Cue(k * 1000, k * 1000 + 800, t)
LongTrack(mark) ==
    [k \in 1..LongLen |->
        LongCue(k - 1, IF (k - 1) \in MarkedPositions THEN mark[k - 1] ELSE T_xy)]
LongTracks == {LongTrack(mark) : mark \in [MarkedPositions -> {T_xy, T_ab, T_b}]}

LongNewTracks ==
    UNION {{[k \in 1..n |-> LongCue(k - 1, t[k])] : t \in [1..n -> LongTexts]} :
              n \in 1..MaxLongNew}

InitLong ==
    /\ BatchIdle
    /\ kind = "smart"
    /\ original_subs \in LongTracks
    /\ new_subs \in LongNewTracks
    /\ video_duration = 30000
    /\ threshold = DefaultThresholdMs
    /\ merge_gap = DefaultMergeGapMs
    /\ PlanStart
    /\ MergeIdle
    /\ ServerIdle

NextLong == SmartStep \/ PlanFinish

SpecLong == InitLong /\ [][NextLong]_vars

\* ------------------------------------------------------------------ process(): the ffmpeg calls

\* a produced file must be larger than 1000 bytes
SizeSentinel == 1000

\* the timeouts of the extract call and of the concat / embed call, in seconds
ExtractTimeoutS == 300
ConcatTimeoutS == 600

\* how one ffmpeg call can end: it exits with a return code and leaves a file
\* of some size (-1: no file), it times out, or subprocess.run raises
CallOutcomes ==
    {[how |-> "exit", returncode |-> r, size |-> z] :
        r \in {0, 1}, z \in {-1, SizeSentinel, SizeSentinel + 1}}
    \cup {[how |-> "timeout", returncode |-> 0, size |-> -1],
          [how |-> "exception", returncode |-> 0, size |-> -1]}

\* `result.returncode == 0 and temp_segment.exists() and st_size > 1000`
segment_extracted(o) ==
    o.how = "exit" /\ o.returncode = 0 /\ o.size >= 0 /\ o.size > SizeSentinel

\* `result.returncode == 0 and output_path.exists() and st_size > 1000`
concat_succeeded_mut(o) == o.how = "exit" /\ o.returncode = 0
concat_succeeded(o) ==
    o.how = "exit" /\ o.returncode = 0 /\ o.size >= 0 /\ o.size > SizeSentinel

\* `segment_files.append(str(temp_segment))`: segment k's file joins the list
keep_file_mut(files, k) == <<k>> \o files
keep_file(files, k) == Append(files, k)

\* `if not segment_files:` after the extraction loop
none_survived_mut(files) == FALSE
none_survived(files) == files = <<>>

\* VideoRecomposer calls subprocess.run without a timeout
timeout_of(op) ==
    IF kind = "recomposer" THEN 0
    ELSE IF op = "extract" THEN ExtractTimeoutS ELSE ConcatTimeoutS

\* the outcomes a call of this pipeline can have: no timeout expires when
\* none is set
outcomes_of_call == IF kind = "recomposer"
                    THEN {o \in CallOutcomes : o.how # "timeout"}
                    ELSE CallOutcomes

\* the history entries: the command issued, with whether the segment file
\* was kept (extract) or how the call ended (concat)
extract_call(k, o) ==
    [op |-> "extract", index |-> k, seek |-> extract_seek(to_extract[k]),
     length |-> extract_length(to_extract[k]), timeout |-> timeout_of("extract"),
     kept |-> segment_extracted(o)]

concat_call(o) ==
    [op |-> "concat", files |-> segment_files, timeout |-> timeout_of("concat"),
     outcome |-> o]

embed_call == [op |-> "embed", timeout |-> ConcatTimeoutS]

\* get_video_duration(self) takes no argument besides self: a call with
\* `extra` more arguments raises TypeError
get_video_duration_accepts(extra) == extra = 0

\* ------------------------------------------------------------------ process(): results

\* the clippers whose process() fills results['error']
StandardKinds == {"smart", "align", "compact", "enhanced", "cumulative"}

error_result(msg) == [EmptyResults EXCEPT !.error = msg]

\* results['success'] = True with the path of the concatenated video (and
\* the stats, which Enhanced does not return); VideoReclipper sets the path
\* only, VideoRecomposer returns the path itself
success_result ==
    [EmptyResults EXCEPT !.success = kind \in StandardKinds \cup {"remap"},
                         !.artifact = "clipped",
                         !.stats = kind \in (StandardKinds \ {"enhanced"}) \cup {"remap"}]

\* `return self.original_video`
original_video_result == [EmptyResults EXCEPT !.artifact = "original"]

\* the `finally` block of process() removes temp_dir however process() ends
\* (how: "returned" or "raised"); VideoRecomposer's clipping step leaves the
\* directory to cleanup()
temp_dir_after_mut(how) == IF how = "returned" THEN FALSE ELSE temp_dir
temp_dir_after(how) == IF kind = "recomposer" THEN temp_dir ELSE FALSE

\* process() ends: `return results` or a propagating exception, then `finally`
finish(res, how) ==
    /\ results' = res
    /\ proc' = how
    /\ pc' = "done"
    /\ temp_dir' = temp_dir_after(how)

\* ------------------------------------------------------------------ process(): the steps after planning

\* VideoRecomposer merges with a fixed gap of 2 s
RecomposerMergeGapMs == 2000

\* an exception leaves the planner (a division by zero in its statistics):
\* Timeline-Remap's process() catches it and reports it, the others have no
\* `except` and let it propagate
PlanRaised ==
    /\ pc = "raised"
    /\ IF kind = "remap"
       THEN finish(error_result("exception"), "returned")
       ELSE finish(results, "raised")
    /\ UNCHANGED <<to_extract, seg_idx, segment_files, ffmpeg_calls, last_outcome, log_exported, cancelled_at>>
    /\ UNCHANGED <<i, segments, used_original_indices, last_original_index, cumulative_offset,
                   processing_log, adjusted_original, accepted, stats, inputVars, replayVars, serverVars, batchVars, mergeVars>>

\* from the planner's return to the head of the extraction loop:
\* `if not segments` (not in VideoReclipper), the log export (not in Enhanced,
\* VideoReclipper, VideoRecomposer), the merge (VideoReclipper, VideoRecomposer)
BeginExtraction ==
    /\ pc = "planned"
    /\ IF kind # "reclip" /\ segments = <<>>
       THEN /\ IF kind = "recomposer"
               THEN finish(original_video_result, "returned")
               ELSE finish(error_result("no_segments"), "returned")
            /\ UNCHANGED <<to_extract, log_exported>>
       ELSE /\ to_extract' = IF kind = "reclip"
                             THEN merge_adjacent_segments(segments, merge_gap)
                             ELSE IF kind = "recomposer"
                             THEN merge_adjacent_segments(segments, RecomposerMergeGapMs)
                             ELSE segments
            /\ log_exported' = (kind \in {"remap", "smart", "align", "compact", "cumulative"})
            /\ pc' = "extract"
            /\ UNCHANGED <<results, proc, temp_dir>>
    /\ UNCHANGED <<seg_idx, segment_files, ffmpeg_calls, last_outcome, cancelled_at>>
    /\ UNCHANGED <<i, segments, used_original_indices, last_original_index, cumulative_offset,
                   processing_log, adjusted_original, accepted, stats, inputVars, replayVars, serverVars, batchVars, mergeVars>>

\* one pass of the extraction loop: the ffmpeg call for segment seg_idx + 1
\* ends with outcome o. A kept file is appended; a failure is skipped, but
\* create_timeline_video returns None on it, and in VideoRecomposer an
\* exception of subprocess.run is not caught
ExtractSegment(o) ==
    /\ pc = "extract" /\ seg_idx < Len(to_extract)
    /\ o \in outcomes_of_call
    /\ ffmpeg_calls' = Append(ffmpeg_calls, extract_call(seg_idx + 1, o))
    /\ last_outcome' = o
    /\ IF kind = "recomposer" /\ o.how = "exception"
       THEN /\ finish(results, "raised")
            /\ UNCHANGED <<seg_idx, segment_files>>
       ELSE IF segment_extracted(o)
       THEN /\ segment_files' = keep_file(segment_files, seg_idx + 1)
            /\ seg_idx' = seg_idx + 1
            /\ UNCHANGED <<pc, results, proc, temp_dir>>
       ELSE IF kind = "remap"
       THEN /\ finish(error_result("create_failed"), "returned")
            /\ UNCHANGED <<seg_idx, segment_files>>
       ELSE /\ seg_idx' = seg_idx + 1
            /\ UNCHANGED <<segment_files, pc, results, proc, temp_dir>>
    /\ UNCHANGED <<to_extract, log_exported, cancelled_at>>
    /\ UNCHANGED <<i, segments, used_original_indices, last_original_index, cumulative_offset,
                   processing_log, adjusted_original, accepted, stats, inputVars, replayVars, serverVars, batchVars, mergeVars>>

\* after the loop: `if not segment_files` ends the run (an error result, a
\* ValueError that VideoReclipper catches to return results as they are, the
\* original video in VideoRecomposer); create_timeline_video has no such test
ExtractionDone ==
    /\ pc = "extract" /\ seg_idx = Len(to_extract)
    /\ IF kind # "remap" /\ none_survived(segment_files)
       THEN IF kind = "reclip" THEN finish(results, "returned")
            ELSE IF kind = "recomposer" THEN finish(original_video_result, "returned")
            ELSE finish(error_result("all_failed"), "returned")
       ELSE /\ pc' = "concat"
            /\ UNCHANGED <<results, proc, temp_dir>>
    /\ UNCHANGED <<to_extract, seg_idx, segment_files, ffmpeg_calls, last_outcome, log_exported, cancelled_at>>
    /\ UNCHANGED <<i, segments, used_original_indices, last_original_index, cumulative_offset,
                   processing_log, adjusted_original, accepted, stats, inputVars, replayVars, serverVars, batchVars, mergeVars>>

\* concat_segments and what process() makes of its return value; the ffmpeg
\* concat call ends with outcome o. Timeline-Remap measures the new video
\* with get_video_duration(path) before it reports success
ConcatSegments(o) ==
    /\ pc = "concat"
    /\ o \in outcomes_of_call
    /\ LET called == ~(kind \in StandardKinds \cup {"reclip"} /\ segment_files = <<>>)
           made == /\ called
                   /\ concat_succeeded(o)
                   /\ (kind = "remap" => get_video_duration_accepts(1))
       IN /\ ffmpeg_calls' = IF called THEN Append(ffmpeg_calls, concat_call(o)) ELSE ffmpeg_calls
          /\ last_outcome' = IF called THEN o ELSE last_outcome
          /\ IF called /\ kind = "recomposer" /\ o.how = "exception"
             THEN finish(results, "raised")
             ELSE IF made
             THEN IF kind = "reclip"
                  THEN /\ results' = success_result
                       /\ pc' = "embed"
                       /\ UNCHANGED <<proc, temp_dir>>
                  ELSE finish(success_result, "returned")
             ELSE IF kind = "reclip" THEN finish(results, "returned")
             ELSE IF kind = "recomposer" THEN finish(original_video_result, "returned")
             ELSE IF kind = "remap" THEN finish(error_result("create_failed"), "returned")
             ELSE finish(error_result("concat_failed"), "returned")
    /\ UNCHANGED <<to_extract, seg_idx, segment_files, log_exported, cancelled_at>>
    /\ UNCHANGED <<i, segments, used_original_indices, last_original_index, cumulative_offset,
                   processing_log, adjusted_original, accepted, stats, inputVars, replayVars, serverVars, batchVars, mergeVars>>

\* VideoReclipper's last step: embed_subtitle adds a second path when its call
\* succeeds and returns None otherwise
EmbedSubtitle(o) ==
    /\ pc = "embed"
    /\ o \in outcomes_of_call
    /\ ffmpeg_calls' = Append(ffmpeg_calls, embed_call)
    /\ last_outcome' = o
    /\ finish([results EXCEPT !.with_subtitle = concat_succeeded(o)], "returned")
    /\ UNCHANGED <<to_extract, seg_idx, segment_files, log_exported, cancelled_at>>
    /\ UNCHANGED <<i, segments, used_original_indices, last_original_index, cumulative_offset,
                   processing_log, adjusted_original, accepted, stats, inputVars, replayVars, serverVars, batchVars, mergeVars>>

\* the backend's cancel_task, called while the clipper runs in its thread:
\* the task is taken out of the registry; nothing in the clipper reads that
RequestCancel ==
    /\ proc = "running" /\ pc # "off"
    /\ cancelled_at = -1
    /\ cancelled_at' = Len(ffmpeg_calls)
    /\ UNCHANGED <<to_extract, seg_idx, segment_files, ffmpeg_calls, last_outcome,
                   log_exported, temp_dir, proc, results>>
    /\ UNCHANGED <<planVars, inputVars, replayVars, serverVars, batchVars, mergeVars>>

\* ------------------------------------------------------------------ a whole run

MaxRunCues == 2

RunCuePool == {Cue(10000, 12000, T_ab), Cue(10500, 12300, T_AB), Cue(0, 3000, T_b)}

RunKinds == PlanKinds \cup {"recomposer"}

RunTracks == TracksOf(RunCuePool, MaxRunCues)

Init ==
    /\ BatchIdle
    /\ kind \in RunKinds
    /\ original_subs \in RunTracks
    /\ new_subs \in RunTracks
    /\ video_duration \in DurationPool
    /\ kind = "recomposer" => video_duration > 0
    /\ threshold = DefaultThresholdMs
    /\ merge_gap = IF kind = "reclip" THEN ReclipMergeGapMs ELSE DefaultMergeGapMs
    /\ PlanStart
    /\ MergeIdle
    /\ ServerIdle

Next ==
    \/ RemapStep
    \/ SmartStep
    \/ AlignStep
    \/ CompactStep
    \/ EnhancedStep
    \/ CumulativeStep
    \/ ReclipStep
    \/ RecomposerStep
    \/ PlanFinish
    \/ PlanRaised
    \/ BeginExtraction
    \/ \E o \in CallOutcomes : ExtractSegment(o)
    \/ ExtractionDone
    \/ \E o \in CallOutcomes : ConcatSegments(o)
    \/ \E o \in CallOutcomes : EmbedSubtitle(o)
    \/ RequestCancel

Spec == Init /\ [][Next]_vars

\* ------------------------------------------------------------------ the backend: tasks and worker threads

MaxTasks == 2
MaxWorkers == 2
MaxClock == 1

TaskIds == 1..MaxTasks
TaskTypes == {"recompose", "compact_clip"}

\* the `output_dir` an upload gives its task: `video_recomp_<timestamp>` or
\* `compact_clip_<timestamp>` under OUTPUT_FOLDER, the timestamp to the second
output_dir_of(type, task_id, timestamp) == <<type, timestamp>>

\* `self.output_dir / "compact_video.mp4"`: one fixed name inside the folder
artifact_path(folder) == <<folder, "video.mp4">>

\* the task record an upload stores: `'status': 'uploaded', 'error': None`
new_task(type, task_id, timestamp) ==
    [type |-> type, status |-> "uploaded", error |-> "", artifact |-> <<>>,
     output_folder |-> output_dir_of(type, task_id, timestamp)]

\* the test a process request makes under the lock before it starts a
\* thread: process_video turns away a task that is processing or completed,
\* process_compact_clip only looks at the task's type
may_start(task) ==
    IF task.type = "recompose" THEN task.status \notin {"processing", "completed"}
    ELSE TRUE

\* dict assignment and `del`
TaskPut(t, rec) == [x \in (DOMAIN tasks) \cup {t} |-> IF x = t THEN rec ELSE tasks[x]]
TaskDel(t) == [x \in (DOMAIN tasks) \ {t} |-> tasks[x]]

\* the upload endpoints: a new uuid4 task id, the files saved, the record stored
Upload(type) ==
    /\ \E t \in TaskIds \ issued :
          /\ issued' = issued \cup {t}
          /\ tasks' = TaskPut(t, new_task(type, t, clock))
    /\ UNCHANGED <<clock, starting, workers, written>>
    /\ UNCHANGED <<mergeVars, inputVars, planVars, replayVars, runVars, batchVars>>

\* a second passes
Tick ==
    /\ clock < MaxClock
    /\ clock' = clock + 1
    /\ UNCHANGED <<tasks, issued, starting, workers, written>>
    /\ UNCHANGED <<mergeVars, inputVars, planVars, replayVars, runVars, batchVars>>

\* process_video / process_compact_clip up to the end of `with tasks_lock`
ProcessRequest(t) ==
    /\ t \in DOMAIN tasks
    /\ may_start(tasks[t])
    /\ Len(starting) + Len(workers) < MaxWorkers
    /\ starting' = Append(starting, t)
    /\ UNCHANGED <<tasks, issued, clock, workers, written>>
    /\ UNCHANGED <<mergeVars, inputVars, planVars, replayVars, runVars, batchVars>>

\* ... and its `thread.start()`
StartThread ==
    /\ starting # <<>>
    /\ workers' = Append(workers, [task |-> Head(starting), at |-> "begin",
                                   folder |-> <<>>, result |-> "none"])
    /\ starting' = Tail(starting)
    /\ UNCHANGED <<tasks, issued, clock, written>>
    /\ UNCHANGED <<mergeVars, inputVars, planVars, replayVars, runVars, batchVars>>

WorkerAt(w, pos) == w \in 1..Len(workers) /\ workers[w].at = pos
WorkerGoes(w, pos) == workers' = [workers EXCEPT ![w].at = pos]

\* the thread's first `with tasks_lock`: `task['status'] = 'processing'`; a
\* task that is gone raises KeyError into the thread's except clause
WorkerBegin(w) ==
    /\ WorkerAt(w, "begin")
    /\ LET t == workers[w].task
       IN IF t \in DOMAIN tasks
          THEN /\ tasks' = [tasks EXCEPT ![t].status = "processing"]
               /\ WorkerGoes(w, "construct")
          ELSE /\ WorkerGoes(w, "except")
               /\ UNCHANGED tasks
    /\ UNCHANGED <<issued, clock, starting, written>>
    /\ UNCHANGED <<mergeVars, inputVars, planVars, replayVars, runVars, batchVars>>

\* the clipper is constructed from `tasks[task_id][...]`, read without the
\* lock, and the progress is stored under it
WorkerConstruct(w) ==
    /\ WorkerAt(w, "construct")
    /\ LET t == workers[w].task
       IN IF t \in DOMAIN tasks
          THEN workers' = [workers EXCEPT ![w].at = "process",
                                          ![w].folder = tasks[t].output_folder]
          ELSE WorkerGoes(w, "except")
    /\ UNCHANGED <<tasks, issued, clock, starting, written>>
    /\ UNCHANGED <<mergeVars, inputVars, planVars, replayVars, runVars, batchVars>>

\* `result = clipper.process()`: a success result with the artifact written
\* into the task's output folder, an error result, or an exception
ProcessResults == {"success", "error", "raised"}

WorkerProcess(w, res) ==
    /\ WorkerAt(w, "process")
    /\ res \in ProcessResults
    /\ IF res = "raised"
       THEN WorkerGoes(w, "except")
       ELSE workers' = [workers EXCEPT ![w].at = "finish", ![w].result = res]
    /\ written' = IF res = "success"
                  THEN written \cup {<<artifact_path(workers[w].folder), workers[w].task>>}
                  ELSE written
    /\ UNCHANGED <<tasks, issued, clock, starting>>
    /\ UNCHANGED <<mergeVars, inputVars, planVars, replayVars, runVars, batchVars>>

\* the status a worker stores once process() has returned
status_after(res) == "completed"

\* the thread's last `with tasks_lock`: the status, then the artifact of a
\* success result or the error of an error result
WorkerFinish(w) ==
    /\ WorkerAt(w, "finish")
    /\ LET t == workers[w].task
           res == workers[w].result
       IN IF t \in DOMAIN tasks
          THEN /\ tasks' = [tasks EXCEPT
                      ![t].status = status_after(res),
                      ![t].artifact = IF res = "success"
                                      THEN artifact_path(workers[w].folder) ELSE @,
                      ![t].error = IF res = "success" THEN @ ELSE "error"]
               /\ WorkerGoes(w, "done")
          ELSE /\ WorkerGoes(w, "except")
               /\ UNCHANGED tasks
    /\ UNCHANGED <<issued, clock, starting, written>>
    /\ UNCHANGED <<mergeVars, inputVars, planVars, replayVars, runVars, batchVars>>

\* the thread's `except Exception`: `tasks[task_id]['status'] = 'failed'`
\* under the lock; for a task that is gone this raises KeyError again, out of
\* the handler, and the thread dies of it
WorkerExcept(w) ==
    /\ WorkerAt(w, "except")
    /\ LET t == workers[w].task
       IN IF t \in DOMAIN tasks
          THEN /\ tasks' = [tasks EXCEPT ![t].status = "failed", ![t].error = "exception"]
               /\ WorkerGoes(w, "done")
          ELSE /\ WorkerGoes(w, "died")
               /\ UNCHANGED tasks
    /\ UNCHANGED <<issued, clock, starting, written>>
    /\ UNCHANGED <<mergeVars, inputVars, planVars, replayVars, runVars, batchVars>>

\* cancel_task: `del tasks[task_id]` under the lock, whatever the task's
\* status is and whether or not a worker is running for it
DeleteTask(t) ==
    /\ t \in DOMAIN tasks
    /\ tasks' = TaskDel(t)
    /\ UNCHANGED <<issued, clock, starting, workers, written>>
    /\ UNCHANGED <<mergeVars, inputVars, planVars, replayVars, runVars, batchVars>>

InitServer ==
    /\ BatchIdle
    /\ ServerIdle
    /\ ClipperIdle
    /\ MergeIdle

NextServer ==
    \/ \E type \in TaskTypes : Upload(type)
    \/ Tick
    \/ \E t \in TaskIds : ProcessRequest(t)
    \/ StartThread
    \/ \E w \in 1..MaxWorkers : WorkerBegin(w)
    \/ \E w \in 1..MaxWorkers : WorkerConstruct(w)
    \/ \E w \in 1..MaxWorkers : \E res \in ProcessResults : WorkerProcess(w, res)
    \/ \E w \in 1..MaxWorkers : WorkerFinish(w)
    \/ \E w \in 1..MaxWorkers : WorkerExcept(w)
    \/ \E t \in TaskIds : DeleteTask(t)

SpecServer == InitServer /\ [][NextServer]_vars

\* ------------------------------------------------------------------ the batch processor

MaxVideos == 4

\* what EnhancedVideoClipper.process() hands back for one video
VideoResults == {"success", "error"}

\* process_single: the clipper runs and its result is returned to the
\* caller; self.results is left as it is
results_after_single(held, result) == held

\* the batch API: process_batch_clip_thread calls process_single for the
\* next video and counts the result in the task record
BatchSingle(result) ==
    /\ batch_mode = "process_single" /\ bpc = "loop" /\ batch_pos < batch_videos
    /\ result \in VideoResults
    /\ self_results' = results_after_single(self_results, result)
    /\ task_completed' = IF result = "success" THEN task_completed + 1 ELSE task_completed
    /\ task_failed' = IF result = "success" THEN task_failed ELSE task_failed + 1
    /\ batch_pos' = batch_pos + 1
    /\ UNCHANGED <<batch_mode, batch_videos, local_results, bpc, report>>
    /\ UNCHANGED <<mergeVars, inputVars, planVars, replayVars, runVars, serverVars>>

\* one pass of the loop of process_batch: `results.append(result)`
BatchLoop(result) ==
    /\ batch_mode = "process_batch" /\ bpc = "loop" /\ batch_pos < batch_videos
    /\ result \in VideoResults
    /\ self_results' = results_after_single(self_results, result)
    /\ local_results' = Append(local_results, result)
    /\ batch_pos' = batch_pos + 1
    /\ UNCHANGED <<batch_mode, batch_videos, task_completed, task_failed, bpc, report>>
    /\ UNCHANGED <<mergeVars, inputVars, planVars, replayVars, runVars, serverVars>>

\* the loop is over: process_batch stores `self.results = results`; the
\* batch API has nothing to do here
BatchLoopEnd ==
    /\ bpc = "loop" /\ batch_pos = batch_videos
    /\ self_results' = IF batch_mode = "process_batch" THEN local_results ELSE self_results
    /\ bpc' = "looped"
    /\ UNCHANGED <<batch_mode, batch_videos, batch_pos, local_results,
                   task_completed, task_failed, report>>
    /\ UNCHANGED <<mergeVars, inputVars, planVars, replayVars, runVars, serverVars>>

CountOf(held, what) == Cardinality({k \in 1..Len(held) : held[k] = what})

\* generate_report: counts over self.results
generate_report ==
    [state |-> "made",
     total |-> Len(self_results),
     successful |-> CountOf(self_results, "success"),
     failed |-> Len(self_results) - CountOf(self_results, "success")]

GenerateReport ==
    /\ bpc = "looped"
    /\ report' = generate_report
    /\ bpc' = "reported"
    /\ UNCHANGED <<batch_mode, batch_videos, batch_pos, self_results, local_results,
                   task_completed, task_failed>>
    /\ UNCHANGED <<mergeVars, inputVars, planVars, replayVars, runVars, serverVars>>

InitBatch ==
    /\ batch_mode \in {"process_batch", "process_single"}
    /\ batch_videos \in 1..MaxVideos
    /\ batch_pos = 0
    /\ self_results = <<>>
    /\ local_results = <<>>
    /\ task_completed = 0
    /\ task_failed = 0
    /\ bpc = "loop"
    /\ report = NoReport
    /\ ServerIdle
    /\ ClipperIdle
    /\ MergeIdle

NextBatch ==
    \/ \E result \in VideoResults : BatchSingle(result)
    \/ \E result \in VideoResults : BatchLoop(result)
    \/ BatchLoopEnd
    \/ GenerateReport

SpecBatch == InitBatch /\ [][NextBatch]_vars

\* ------------------------------------------------------------------ claims: merge

SortedByStart(segs) ==
    \A k \in 1..(Len(segs) - 1) : segs[k][1] <= segs[k + 1][1]

Covered(seg, segs) ==
    \E k \in 1..Len(segs) : segs[k][1] <= seg[1] /\ seg[2] <= segs[k][2]

\* C4: the merge never drops a segment: for an input sorted by start, every
\* input segment lies inside some output segment (also a nested one).
C4_MergeCoversInput ==
    (mpc = "merged" /\ SortedByStart(m_segments)) =>
        \A k \in 1..Len(m_segments) : Covered(m_segments[k], merged)

\* C5: merging is idempotent: merge(merge(S, g), g) = merge(S, g).
C5_MergeIdempotent ==
    mpc = "remerged" => remerged = merged

\* a run in which the first pass really merged something and the output
\* still has several segments for the second pass to walk over
C5_Witness ==
    /\ mpc = "remerged"
    /\ Len(merged) >= 2
    /\ Len(merged) < Len(m_segments)
    /\ remerged = merged

\* ------------------------------------------------------------------ claims: planning

\* C1: within one planning run no original cue index is accepted as the
\* match of two different new cues.
C1_MatchingInjective ==
    \A x \in 1..Len(accepted) : \A y \in 1..Len(accepted) :
        accepted[x][2] = accepted[y][2] => x = y

LogEntriesOf(n) == {k \in 1..Len(processing_log) : processing_log[k].index = n}
MatchedEntries == {k \in 1..Len(processing_log) : processing_log[k].status = "matched"}
UnmatchedEntries == {k \in 1..Len(processing_log) : processing_log[k].status # "matched"}

\* C3: after a run of a matching planner every new cue has exactly one log
\* entry, matched or unmatched, and matched + unmatched = total new cues.
C3_EveryCueLoggedOnce ==
    (pc = "planned" /\ kind \in {"remap", "smart", "align", "compact"}) =>
        /\ \A n \in 1..Len(new_subs) : Cardinality(LogEntriesOf(n)) = 1
        /\ stats.matched_segments + Cardinality(UnmatchedEntries) = Len(new_subs)

\* the interval of the source video one planned segment asks ffmpeg for:
\* <<-ss, -ss + -t>> of the extract command built from it
handed_interval(seg) ==
    <<extract_seek(seg), extract_seek(seg) + extract_length(seg)>>

\* C2: for every segment a planner emits, the source interval handed to
\* extraction satisfies 0 <= sourceStart < sourceEnd <= videoDuration.
C2_IntervalValid ==
    pc = "planned" =>
        \A k \in 1..Len(segments) :
            /\ 0 <= handed_interval(segments[k])[1]
            /\ handed_interval(segments[k])[1] < handed_interval(segments[k])[2]
            /\ handed_interval(segments[k])[2] <= video_duration

\* C6: in Cumulative-Adjust a cue whose |time_diff| equals the threshold
\* keeps its original interval, is not logged as an adjustment and leaves
\* the cumulative offset alone.
C6_EqualToThresholdUnchanged ==
    (kind = "cumulative" /\ pc = "plan") =>
        \A n \in 1..i :
            Abs(original_subs[n].start - new_subs[n].start) = threshold =>
                /\ adjusted_original[n].start = original_subs[n].start
                /\ adjusted_original[n].end = original_subs[n].end
                /\ adjusted_original[n].adjustment = 0
                /\ LogEntriesOf(n) = {}

\* ------------------------------------------------------------------ claims: the run

ExtractCalls == {k \in 1..Len(ffmpeg_calls) : ffmpeg_calls[k].op = "extract"}
ConcatCalls == {k \in 1..Len(ffmpeg_calls) : ffmpeg_calls[k].op = "concat"}

\* process() has returned after its extraction loop was entered
ReturnedAfterExtraction == pc = "done" /\ proc = "returned" /\ to_extract # <<>>

\* a call that exits with code 0 and leaves a file above the size sentinel
CallSucceeded(o) == o.how = "exit" /\ o.returncode = 0 /\ o.size > SizeSentinel

\* C7: a failed extraction is non-fatal in every clipper pipeline: every
\* segment of the plan still gets its extract call, and the concat call is
\* made when at least one segment file was kept.
C7_FailedExtractionNonFatal ==
    ReturnedAfterExtraction =>
        /\ Cardinality(ExtractCalls) = Len(to_extract)
        /\ (\E k \in ExtractCalls : ffmpeg_calls[k].kept) => ConcatCalls # {}

\* every segment of the plan was extracted and kept, and the concat call
\* succeeded
AllCallsSucceeded ==
    /\ Cardinality(ExtractCalls) = Len(to_extract)
    /\ \A k \in ExtractCalls : ffmpeg_calls[k].kept
    /\ ConcatCalls # {}
    /\ \A k \in ConcatCalls : CallSucceeded(ffmpeg_calls[k].outcome)

\* C8: when planning yields a segment and every extract call and the concat
\* call succeed, process() returns a success result with the artifact path,
\* in every pipeline, Timeline-Remap included.
C8_AllCallsSucceedGivesSuccess ==
    (pc = "done" /\ to_extract # <<>> /\ AllCallsSucceeded) =>
        /\ proc = "returned"
        /\ results.error = ""
        /\ results.artifact = "clipped"
        /\ (kind \in StandardKinds \cup {"remap"} => results.success)

\* the extraction loop was entered and kept no segment file
ZeroSurvived ==
    /\ ReturnedAfterExtraction
    /\ \A k \in ExtractCalls : ~ffmpeg_calls[k].kept

ConcatFailed ==
    /\ pc = "done" /\ proc = "returned"
    /\ \E k \in ConcatCalls : ~CallSucceeded(ffmpeg_calls[k].outcome)

RECURSIVE kept_upto(_)
kept_upto(n) ==
    IF n = 0 THEN <<>>
    ELSE LET calls == {k \in ExtractCalls : ffmpeg_calls[k].index = n /\ ffmpeg_calls[k].kept}
         IN IF calls # {} THEN Append(kept_upto(n - 1), n) ELSE kept_upto(n - 1)

\* C11: the concat manifest is the subsequence of the plan's segments whose
\* extraction succeeded, in plan order; the concat call is issued at most
\* once, and only after every extract call of the run.
C11_ManifestInPlanOrder ==
    /\ Cardinality(ConcatCalls) <= 1
    /\ \A c \in ConcatCalls :
        /\ ffmpeg_calls[c].files = kept_upto(Len(to_extract))
        /\ \A e \in ExtractCalls : e < c
        /\ Cardinality(ExtractCalls) = Len(to_extract)

\* two segments were planned, both were kept, and the concat call was made
C11_Witness ==
    /\ Len(to_extract) = 2
    /\ \E c \in ConcatCalls : ffmpeg_calls[c].files = <<1, 2>>

\* C12: whenever process() of a clipper class has returned or raised, on any
\* path, the run's temporary directory has been deleted.
C12_TempDirDeleted ==
    (pc = "done" /\ kind # "recomposer") => ~temp_dir

\* process() ended by an exception that left the planner, and the directory
\* is gone
C12_Witness ==
    /\ pc = "done" /\ proc = "raised" /\ kind = "smart"
    /\ ~temp_dir

\* the clippers whose planner returns a statistics record
StatsKinds == {"remap", "smart", "align", "compact", "cumulative"}

\* C13: for every outcome of process() (no segment planned, all extractions
\* failed, concat failed, success) the caller is given the planner's
\* statistics record: in the returned results or as the exported log.
C13_StatsAlwaysGiven ==
    (pc = "done" /\ proc = "returned" /\ kind \in StatsKinds /\ stats.state = "made") =>
        (results.stats \/ log_exported)

\* C14: a run can be aborted between segment extractions: once a cancellation
\* has been requested no further extract or concat call is issued, and the
\* temporary directory is still deleted before the run returns.
C14_CancelStopsCalls ==
    cancelled_at >= 0 =>
        /\ \A k \in ExtractCalls \cup ConcatCalls : k <= cancelled_at
        /\ (pc = "done" /\ kind # "recomposer") => ~temp_dir

\* a zero-length track or a non-positive video duration
InvalidInput == original_subs = <<>> \/ new_subs = <<>> \/ video_duration <= 0

\* C15: a run given a zero-length original or new track, or a non-positive
\* video duration, is rejected with an InvalidInput error result before any
\* matching or extraction; it neither raises nor reports another error.
C15_InvalidInputRejected ==
    (InvalidInput /\ kind \in PlanKinds /\ pc # "off") =>
        /\ i = 0
        /\ ffmpeg_calls = <<>>
        /\ proc # "raised"
        /\ pc = "done" => results.error = "invalid_input"

GapCuts == {k \in 2..Len(m_segments) :
               m_segments[k][1] - m_segments[k - 1][2] > gap_threshold}
RunFirsts == {1} \cup GapCuts
NthOf(S, n) == CHOOSE x \in S : Cardinality({y \in S : y < x}) = n - 1
RunLast(n) ==
    IF n = Cardinality(RunFirsts) THEN Len(m_segments) ELSE NthOf(RunFirsts, n + 1) - 1

RawDiff(n) == original_subs[n].start - new_subs[n].start
AdjustedCues == {processing_log[k].index : k \in 1..Len(processing_log)}

RECURSIVE SumRawDiff(_)
SumRawDiff(S) ==
    IF S = {} THEN 0
    ELSE LET n == CHOOSE x \in S : TRUE IN RawDiff(n) + SumRawDiff(S \ {n})

RemapScore(n, m) == text_similarity(new_subs[n].text, original_subs[m].text)
RemapBest(n) ==
    {m \in 1..Len(original_subs) :
        \A o \in 1..Len(original_subs) : ~RatGt(RemapScore(n, o), RemapScore(n, m))}
RemapEmitted == {accepted[k][1] : k \in 1..Len(accepted)}

PlannedSourceStart(seg) == IF kind = "remap" THEN seg[3] ELSE seg[1]
PlannedSourceEnd(seg) == PlannedSourceStart(seg) + (seg[2] - seg[1])

ExtractCallsFor(k) == {c \in ExtractCalls : ffmpeg_calls[c].index = k}

\* C20: every extract call requests the planned source interval of its
\* segment (start = sourceStart, duration = sourceEnd - sourceStart), and
\* once the extraction loop is over every planned segment has had exactly one
\* extract call.
C20_ExtractPlannedInterval ==
    /\ \A c \in ExtractCalls :
          LET seg == to_extract[ffmpeg_calls[c].index]
          IN /\ ffmpeg_calls[c].seek = PlannedSourceStart(seg)
             /\ ffmpeg_calls[c].length = PlannedSourceEnd(seg) - PlannedSourceStart(seg)
    /\ (pc = "concat" \/ ReturnedAfterExtraction) =>
          \A k \in 1..Len(to_extract) : Cardinality(ExtractCallsFor(k)) = 1

\* ------------------------------------------------------------------ claims: windows and anchors

\* the original index accepted just before the k-th acceptance (0 before the
\* first one) and the original indices accepted before it
AnchorBefore(k) == IF k = 1 THEN 0 ELSE accepted[k - 1][2]
UsedBefore(k) == {accepted[j][2] : j \in 1..(k - 1)}

\* C21: in the Gap-Preserving planner every accepted original index is an
\* unused index within 20 of the most recently accepted one (of 0 before the
\* first acceptance): a cue outside that window is never matched.
C21_MatchInsideWindow ==
    kind = "smart" =>
        \A k \in 1..Len(accepted) :
            /\ accepted[k][2] \notin UsedBefore(k)
            /\ accepted[k][2] >= AnchorBefore(k) - SmartWindow
            /\ accepted[k][2] <= AnchorBefore(k) + SmartWindow

\* C22: in the Timeline-Align planner the anchor, the index of the last
\* accepted original cue, never decreases: an accepted match never has a
\* lower original index than the one accepted before it.
C22_AnchorMonotone ==
    kind = "align" =>
        /\ \A k \in 2..Len(accepted) : accepted[k][2] >= accepted[k - 1][2]
        /\ (accepted # <<>> => last_original_index = accepted[Len(accepted)][2])

\* ------------------------------------------------------------------ claims: blended scores

\* the text term of the blended score of new cue n against original cue m
\* (m counted from 0): the SequenceMatcher ratio in Timeline-Align, the share
\* of common words in Compact
TextTerm(n, m) ==
    IF kind = "align" THEN text_similarity(new_subs[n].text, orig(m).text)
    ELSE word_similarity(new_subs[n].text, orig(m).text)

\* C23: in Timeline-Align and Compact, whose scores blend text similarity
\* with a duration or start-time term, a candidate of zero text similarity is
\* never accepted as a match.
C23_ZeroTextNeverAccepted ==
    kind \in {"align", "compact"} =>
        \A k \in 1..Len(accepted) :
            RatGt(TextTerm(accepted[k][1], accepted[k][2]), RatZero)

\* ------------------------------------------------------------------ claims: skipped cues

\* the original cue the planner picks for the new cue it is about to look
\* at (-1 for none), in Smart-Segment and in Compact
SmartPick ==
    LET new_sub == new_subs[i + 1]
        anchor == IF used_original_indices # {} THEN SetMax(used_original_indices) ELSE 0
        cands == (Max(0, anchor - SmartWindow)..
                     (Min(Len(original_subs), anchor + SmartWindow + 1) - 1))
                 \ used_original_indices
        sc == [c \in cands |-> text_similarity(new_sub.text, orig(c).text)]
        best == first_best(cands, sc)
    IN IF best >= 0 /\ RatGt(sc[best], Rat(3, 10)) THEN best ELSE -1

CompactPick ==
    find_matching_original_subtitle(new_subs[i + 1], cumulative_offset, used_original_indices)

PickedCue == IF kind = "smart" THEN SmartPick ELSE CompactPick

\* the cue about to be looked at will be skipped: nothing is picked, or the
\* picked cue clamped to the video is empty
CueIsSkipped ==
    \/ PickedCue = -1
    \/ Min(video_duration, orig(PickedCue).end) <= Max(0, orig(PickedCue).start)

C25_ThresholdIsUsed ==
    (pc = "planned" /\ kind = "remap") =>
        \A n \in 1..Len(new_subs) :
            /\ n \in RemapEmitted =>
                  \E m \in RemapBest(n) : RatGt(RemapScore(n, m), Rat(threshold, 1000))
            /\ (/\ original_subs # <<>>
                /\ \A m \in RemapBest(n) :
                      /\ RatGt(RemapScore(n, m), Rat(threshold, 1000))
                      /\ original_subs[m].start < video_duration) =>
                  n \in RemapEmitted

\* ------------------------------------------------------------------ claims: the backend

WorkersOf(t) == {w \in 1..Len(workers) : workers[w].task = t}

\* C26: for one task id at most one worker thread is ever started.
C26_OneWorkerPerTask ==
    \A t \in TaskIds : Cardinality(WorkersOf(t)) <= 1

\* C27: a clip task has status 'completed' only after process() returned a
\* success result with an artifact; after an error result it is 'failed': a
\* task is never 'completed' with an error and without an artifact.
C27_CompletedMeansSuccess ==
    \A t \in DOMAIN tasks :
        (tasks[t].type = "compact_clip" /\ tasks[t].status = "completed") =>
            /\ tasks[t].artifact # <<>>
            /\ tasks[t].error = ""

\* C28: a task deleted while its worker thread runs is handled safely: the
\* worker does not touch the removed task-table entry, so no worker thread
\* ends with an unhandled exception.
C28_DeleteWhileRunningSafe ==
    \A w \in 1..Len(workers) : workers[w].at # "died"

\* C29: two tasks that exist at the same time never write their final
\* artifact to the same path: the output folder an upload assigns is the
\* task's own, also when two uploads fall into the same second.
C29_ArtifactPathsDistinct ==
    /\ \A t \in DOMAIN tasks : \A u \in DOMAIN tasks :
          t # u =>
              artifact_path(tasks[t].output_folder) # artifact_path(tasks[u].output_folder)
    /\ \A x \in written : \A y \in written :
          (x[2] # y[2] /\ {x[2], y[2]} \subseteq DOMAIN tasks) => x[1] # y[1]

\* ------------------------------------------------------------------ claims: the batch report

\* C30: the batch report counts every processed video once: after the N
\* videos have gone through the processor, by process_batch or by N calls of
\* process_single, generate_report returns total = N and successful +
\* failed = total, the counters the batch task record holds.
C30_ReportCountsEveryVideo ==
    bpc = "reported" =>
        /\ report.total = batch_videos
        /\ report.successful + report.failed = report.total
        /\ batch_mode = "process_single" =>
              /\ report.successful = task_completed
              /\ report.failed = task_failed

====
